---- MODULE Spec2Model ----
(***************************************************************************)
(* Model of the MCP4921 DAC driver (src/mcp4921.py).                       *)
(*                                                                         *)
(* Each driver instance is used by one caller thread; all instances sit on *)
(* one SPI bus.  A call to set_value or shutdown is a sequence of steps:   *)
(* the frame is built (local computation), then lock, select, write,       *)
(* unselect, unlock are called on the bus in program order.  write() may   *)
(* raise; the exception then leaves the method at once, since the code has *)
(* no try/finally around the bus calls.                                    *)
(*                                                                         *)
(* The bus (spi.Spi) is outside the driver.  Its lock() is taken to be a   *)
(* blocking exclusive lock that only unlock() frees: a caller arriving at  *)
(* lock() while the lock is held, by whomever, waits.                      *)
(***************************************************************************)
EXTENDS Integers, Sequences, FiniteSets, TLC

\* Module constants of the driver.
BUFFERED == 64
GAIN_1 == 32
NO_SHDN == 16

\* Bounds of the model.
MaxCalls == 2     \* calls each caller makes in Spec
MaxHi == 9        \* out-of-range v: multiples of 4096 up to +-MaxHi

Drivers == {"d1", "d2"}
NoDriver == "none"

\* Inputs of the protocol specification (Spec).
Values == {0, 1600, 4095}
Gains == {1, 2}

\* Inputs of the encoding specification (SpecEnc).
LowSamples == {0, 1, 255, 256, 1600, 4095}
EncValues == (0..4095) \cup
             {hi * 4096 + lo : hi \in ((0 - MaxHi)..MaxHi) \ {0}, lo \in LowSamples}
EncGains == {0 - 1, 0, 1, 2, 3}

(***************************************************************************)
(* Python integer operators.  Python integers are unbounded and behave as  *)
(* infinite two's complement numbers: >> is floor division by a power of   *)
(* two, & with a non-negative mask looks at the low bits of the (possibly  *)
(* negative) left operand.                                                 *)
(***************************************************************************)
RECURSIVE BitAnd(_, _)
BitAnd(a, m) ==
    IF m = 0 THEN 0
    ELSE (a % 2) * (m % 2) + 2 * BitAnd(a \div 2, m \div 2)

RECURSIVE BitOr(_, _)
BitOr(a, b) ==
    IF a = 0 /\ b = 0 THEN 0
    ELSE (IF a % 2 = 1 \/ b % 2 = 1 THEN 1 ELSE 0) + 2 * BitOr(a \div 2, b \div 2)

Shr(a, n) == a \div (2 ^ n)

(***************************************************************************)
(* Faulty variants of the frame construction, each differing from          *)
(* set_value_cmd below in one place.  The properties at the end of the     *)
(* module are checked against them as well: each must be rejected.         *)
(***************************************************************************)
\* shifts v by 4 instead of 8
set_value_cmd_shift4(v, gain, buff) ==
    LET h0 == NO_SHDN
        h1 == IF buff THEN BitOr(h0, BUFFERED) ELSE h0
        h2 == IF gain # 2 THEN BitOr(h1, GAIN_1) ELSE h1
        h_b == BitOr(h2, BitAnd(Shr(v, 4), 15))
        l_b == BitAnd(v, 255)
    IN  <<h_b, l_b>>

\* tests gain == 1 instead of gain != 2
set_value_cmd_gain1(v, gain, buff) ==
    LET h0 == NO_SHDN
        h1 == IF buff THEN BitOr(h0, BUFFERED) ELSE h0
        h2 == IF gain = 1 THEN BitOr(h1, GAIN_1) ELSE h1
        h_b == BitOr(h2, BitAnd(Shr(v, 8), 15))
        l_b == BitAnd(v, 255)
    IN  <<h_b, l_b>>

\* sets bit 7 instead of bit 6 for a buffered reference input
set_value_cmd_buff7(v, gain, buff) ==
    LET h0 == NO_SHDN
        h1 == IF buff THEN BitOr(h0, 128) ELSE h0
        h2 == IF gain # 2 THEN BitOr(h1, GAIN_1) ELSE h1
        h_b == BitOr(h2, BitAnd(Shr(v, 8), 15))
        l_b == BitAnd(v, 255)
    IN  <<h_b, l_b>>

\* masks the shifted value with 0xFF instead of 0x0F
set_value_cmd_widemask(v, gain, buff) ==
    LET h0 == NO_SHDN
        h1 == IF buff THEN BitOr(h0, BUFFERED) ELSE h0
        h2 == IF gain # 2 THEN BitOr(h1, GAIN_1) ELSE h1
        h_b == BitOr(h2, BitAnd(Shr(v, 8), 255))
        l_b == BitAnd(v, 255)
    IN  <<h_b, l_b>>

\* starts the high byte at 0 instead of NO_SHDN
set_value_cmd_noshdn(v, gain, buff) ==
    LET h0 == 0
        h1 == IF buff THEN BitOr(h0, BUFFERED) ELSE h0
        h2 == IF gain # 2 THEN BitOr(h1, GAIN_1) ELSE h1
        h_b == BitOr(h2, BitAnd(Shr(v, 8), 15))
        l_b == BitAnd(v, 255)
    IN  <<h_b, l_b>>

(***************************************************************************)
(* The frame built by set_value (lines 72-85) and by shutdown (100-102).   *)
(***************************************************************************)
set_value_cmd(v, gain, buff) ==
    LET h0 == NO_SHDN
        h1 == IF buff THEN BitOr(h0, BUFFERED) ELSE h0
        h2 == IF gain # 2 THEN BitOr(h1, GAIN_1) ELSE h1
        h_b == BitOr(h2, BitAnd(Shr(v, 8), 15))
        l_b == BitAnd(v, 255)
    IN  <<h_b, l_b>>

shutdown_cmd == <<0, 0>>

VARIABLES
    pc,         \* pc[d]: position of d's caller: idle, enc, lock, select, write, unselect, unlock
    op,         \* op[d]: the method being executed: none, set_value, shutdown
    args,       \* args[d]: arguments of the running set_value call
    cmd,        \* cmd[d]: the local bytearray cmd (<<>> outside a call)
    log,        \* log[d]: bus calls made by d's current (or last) call, in order
    outcome,    \* outcome[d]: none (running / never called), ok (returned), error (raised)
    calls,      \* calls[d]: number of calls d's caller has started
    lockOwner,  \* the driver holding the bus lock, or NoDriver
    selected,   \* selected[d]: d's chip-select line is asserted
    wres,       \* wres[d]: result of the write() of d's current (or last) call: none, ok, fail
    wire,       \* the last write() on the bus: who, for which call, which frame, result,
                \* and the bus as it was then (lock owner, asserted chip-selects)
    cnt,        \* cnt[d]: how often d called lock, unlock, select, unselect
    devMode,    \* devMode[d]: mode of d's DAC: Shutdown or Active
    lastOk      \* lastOk[d]: the method of d's last call that returned normally

vars == <<pc, op, args, cmd, log, outcome, calls, lockOwner, selected, wres, wire,
          cnt, devMode, lastOk>>

NoArgs == [v |-> 0, gain |-> 1, buff |-> FALSE]
NoWire == [drv |-> NoDriver, op |-> "none", args |-> NoArgs, frame |-> <<>>, ok |-> FALSE,
           owner |-> NoDriver, sel |-> {}]
ZeroCnt == [lock |-> 0, unlock |-> 0, select |-> 0, unselect |-> 0]

\* Mode of the device after receiving a frame: bit 4 of the high byte (NOT_SHDN).
ModeOf(frame) == IF BitAnd(frame[1], NO_SHDN) # 0 THEN "Active" ELSE "Shutdown"

Init ==
    /\ pc = [d \in Drivers |-> "idle"]
    /\ op = [d \in Drivers |-> "none"]
    /\ args = [d \in Drivers |-> NoArgs]
    /\ cmd = [d \in Drivers |-> <<>>]
    /\ log = [d \in Drivers |-> <<>>]
    /\ outcome = [d \in Drivers |-> "none"]
    /\ calls = [d \in Drivers |-> 0]
    /\ lockOwner = NoDriver
    /\ selected = [d \in Drivers |-> FALSE]
    /\ wres = [d \in Drivers |-> "none"]
    /\ wire = NoWire
    /\ cnt = [d \in Drivers |-> ZeroCnt]
    /\ devMode = [d \in Drivers |-> "Shutdown"]
    /\ lastOk = [d \in Drivers |-> "none"]

\* Entry of set_value(v, gain, buff): line 56.
CallSetValue(d) ==
    /\ pc[d] = "idle"
    /\ calls[d] < MaxCalls
    /\ \E v \in Values, gain \in Gains, buff \in BOOLEAN :
          args' = [args EXCEPT ![d] = [v |-> v, gain |-> gain, buff |-> buff]]
    /\ pc' = [pc EXCEPT ![d] = "enc"]
    /\ op' = [op EXCEPT ![d] = "set_value"]
    /\ log' = [log EXCEPT ![d] = <<>>]
    /\ outcome' = [outcome EXCEPT ![d] = "none"]
    /\ calls' = [calls EXCEPT ![d] = @ + 1]
    /\ wres' = [wres EXCEPT ![d] = "none"]
    /\ UNCHANGED <<cmd, lockOwner, selected, wire, cnt, devMode, lastOk>>

\* Entry of shutdown(): line 93.
CallShutdown(d) ==
    /\ pc[d] = "idle"
    /\ calls[d] < MaxCalls
    /\ pc' = [pc EXCEPT ![d] = "enc"]
    /\ op' = [op EXCEPT ![d] = "shutdown"]
    /\ args' = [args EXCEPT ![d] = NoArgs]
    /\ log' = [log EXCEPT ![d] = <<>>]
    /\ outcome' = [outcome EXCEPT ![d] = "none"]
    /\ calls' = [calls EXCEPT ![d] = @ + 1]
    /\ wres' = [wres EXCEPT ![d] = "none"]
    /\ UNCHANGED <<cmd, lockOwner, selected, wire, cnt, devMode, lastOk>>

\* set_value, lines 72-85: build cmd.
SetValueEncode(d) ==
    /\ pc[d] = "enc"
    /\ op[d] = "set_value"
    /\ cmd' = [cmd EXCEPT ![d] = set_value_cmd(args[d].v, args[d].gain, args[d].buff)]
    /\ pc' = [pc EXCEPT ![d] = "lock"]
    /\ UNCHANGED <<op, args, log, outcome, calls, lockOwner, selected, wres, wire, cnt,
                   devMode, lastOk>>

\* Faulty variant: shutdown keeps the value bits of the last frame on the bus
\* and clears only the flags.
ShutdownEncode_stale(d) ==
    /\ pc[d] = "enc"
    /\ op[d] = "shutdown"
    /\ cmd' = [cmd EXCEPT ![d] =
                  IF wire.frame = <<>> THEN <<0, 0>>
                  ELSE <<BitAnd(wire.frame[1], 15), wire.frame[2]>>]
    /\ pc' = [pc EXCEPT ![d] = "lock"]
    /\ UNCHANGED <<op, args, log, outcome, calls, lockOwner, selected, wres, wire, cnt,
                   devMode, lastOk>>

\* shutdown, lines 100-102: build cmd.
ShutdownEncode(d) ==
    /\ pc[d] = "enc"
    /\ op[d] = "shutdown"
    /\ cmd' = [cmd EXCEPT ![d] = shutdown_cmd]
    /\ pc' = [pc EXCEPT ![d] = "lock"]
    /\ UNCHANGED <<op, args, log, outcome, calls, lockOwner, selected, wres, wire, cnt,
                   devMode, lastOk>>

\* Faulty variant: the bus lock is taken without waiting for it to be free.
Lock_nowait(d) ==
    /\ pc[d] = "lock"
    /\ lockOwner' = d
    /\ log' = [log EXCEPT ![d] = Append(@, "lock")]
    /\ cnt' = [cnt EXCEPT ![d].lock = @ + 1]
    /\ pc' = [pc EXCEPT ![d] = "select"]
    /\ UNCHANGED <<op, args, cmd, outcome, calls, selected, wres, wire, devMode, lastOk>>

\* self.lock(), lines 87 and 103: blocks until the bus lock is free, then takes it.
Lock(d) ==
    /\ pc[d] = "lock"
    /\ lockOwner = NoDriver
    /\ lockOwner' = d
    /\ log' = [log EXCEPT ![d] = Append(@, "lock")]
    /\ cnt' = [cnt EXCEPT ![d].lock = @ + 1]
    /\ pc' = [pc EXCEPT ![d] = "select"]
    /\ UNCHANGED <<op, args, cmd, outcome, calls, selected, wres, wire, devMode, lastOk>>

\* self.select(), lines 88 and 104: assert the chip-select line.
Select(d) ==
    /\ pc[d] = "select"
    /\ selected' = [selected EXCEPT ![d] = TRUE]
    /\ log' = [log EXCEPT ![d] = Append(@, "select")]
    /\ cnt' = [cnt EXCEPT ![d].select = @ + 1]
    /\ pc' = [pc EXCEPT ![d] = "write"]
    /\ UNCHANGED <<op, args, cmd, outcome, calls, lockOwner, wres, wire, devMode, lastOk>>

\* The method is left: its locals are gone.
Leave(d, result) ==
    /\ pc' = [pc EXCEPT ![d] = "idle"]
    /\ outcome' = [outcome EXCEPT ![d] = result]
    /\ lastOk' = IF result = "ok" THEN [lastOk EXCEPT ![d] = op[d]] ELSE lastOk
    /\ op' = [op EXCEPT ![d] = "none"]
    /\ args' = [args EXCEPT ![d] = NoArgs]
    /\ cmd' = [cmd EXCEPT ![d] = <<>>]

\* What a write() of d's frame puts on the bus.
OnWire(d, ok) ==
    [drv |-> d, op |-> op[d], args |-> args[d], frame |-> cmd[d], ok |-> ok,
     owner |-> lockOwner, sel |-> {e \in Drivers : selected[e]}]

\* self.write(cmd), lines 89 and 105, succeeds: the frame reaches every device
\* whose chip-select is asserted.
WriteOk(d) ==
    /\ pc[d] = "write"
    /\ log' = [log EXCEPT ![d] = Append(@, "write")]
    /\ wres' = [wres EXCEPT ![d] = "ok"]
    /\ wire' = OnWire(d, TRUE)
    /\ devMode' = [e \in Drivers |-> IF selected[e] THEN ModeOf(cmd[d]) ELSE devMode[e]]
    /\ pc' = [pc EXCEPT ![d] = "unselect"]
    /\ UNCHANGED <<op, args, cmd, outcome, calls, lockOwner, selected, cnt, lastOk>>

\* Faulty variant: the exception of write() is caught and the method goes on.
WriteFail_swallow(d) ==
    /\ pc[d] = "write"
    /\ log' = [log EXCEPT ![d] = Append(@, "write")]
    /\ wres' = [wres EXCEPT ![d] = "fail"]
    /\ wire' = OnWire(d, FALSE)
    /\ pc' = [pc EXCEPT ![d] = "unselect"]
    /\ UNCHANGED <<op, args, cmd, outcome, calls, lockOwner, selected, cnt, devMode,
                   lastOk>>

\* self.write(cmd), lines 89 and 105, raises: the exception leaves the method,
\* lines 90-91 (106-107) are not executed.
WriteFail(d) ==
    /\ pc[d] = "write"
    /\ log' = [log EXCEPT ![d] = Append(@, "write")]
    /\ wres' = [wres EXCEPT ![d] = "fail"]
    /\ wire' = OnWire(d, FALSE)
    /\ Leave(d, "error")
    /\ UNCHANGED <<calls, lockOwner, selected, cnt, devMode>>

\* self.unselect(), lines 90 and 106.
Unselect(d) ==
    /\ pc[d] = "unselect"
    /\ selected' = [selected EXCEPT ![d] = FALSE]
    /\ log' = [log EXCEPT ![d] = Append(@, "unselect")]
    /\ cnt' = [cnt EXCEPT ![d].unselect = @ + 1]
    /\ pc' = [pc EXCEPT ![d] = "unlock"]
    /\ UNCHANGED <<op, args, cmd, outcome, calls, lockOwner, wres, wire, devMode, lastOk>>

\* self.unlock(), lines 91 and 107, and the normal return that follows.
Unlock(d) ==
    /\ pc[d] = "unlock"
    /\ lockOwner' = NoDriver
    /\ log' = [log EXCEPT ![d] = Append(@, "unlock")]
    /\ cnt' = [cnt EXCEPT ![d].unlock = @ + 1]
    /\ Leave(d, "ok")
    /\ UNCHANGED <<calls, selected, wres, wire, devMode>>

Next ==
    \E d \in Drivers :
        \/ CallSetValue(d)
        \/ CallShutdown(d)
        \/ SetValueEncode(d)
        \/ ShutdownEncode(d)
        \/ Lock(d)
        \/ Select(d)
        \/ WriteOk(d)
        \/ WriteFail(d)
        \/ Unselect(d)
        \/ Unlock(d)

Spec == Init /\ [][Next]_vars

(***************************************************************************)
(* The encoding specification: one set_value call, its arguments drawn     *)
(* from every in-range value and from out-of-range values of both signs,   *)
(* is run from its entry to its end.                                       *)
(***************************************************************************)
EncDriver == "d1"

InitEnc ==
    /\ pc = [d \in Drivers |-> IF d = EncDriver THEN "enc" ELSE "idle"]
    /\ op = [d \in Drivers |-> IF d = EncDriver THEN "set_value" ELSE "none"]
    /\ \E v \in EncValues, gain \in EncGains, buff \in BOOLEAN :
          args = [d \in Drivers |->
                    IF d = EncDriver THEN [v |-> v, gain |-> gain, buff |-> buff]
                    ELSE NoArgs]
    /\ cmd = [d \in Drivers |-> <<>>]
    /\ log = [d \in Drivers |-> <<>>]
    /\ outcome = [d \in Drivers |-> "none"]
    /\ calls = [d \in Drivers |-> IF d = EncDriver THEN 1 ELSE 0]
    /\ lockOwner = NoDriver
    /\ selected = [d \in Drivers |-> FALSE]
    /\ wres = [d \in Drivers |-> "none"]
    /\ wire = NoWire
    /\ cnt = [d \in Drivers |-> ZeroCnt]
    /\ devMode = [d \in Drivers |-> "Shutdown"]
    /\ lastOk = [d \in Drivers |-> "none"]

NextEnc ==
    \E d \in Drivers :
        \/ SetValueEncode(d)
        \/ Lock(d)
        \/ Select(d)
        \/ WriteOk(d)
        \/ WriteFail(d)
        \/ Unselect(d)
        \/ Unlock(d)

SpecEnc == InitEnc /\ [][NextEnc]_vars

(***************************************************************************)
(* Properties.                                                             *)
(***************************************************************************)
Bit(x, n) == (x \div (2 ^ n)) % 2
B2N(b) == IF b THEN 1 ELSE 0
BusOrder == <<"lock", "select", "write", "unselect", "unlock">>
IsPrefix(s, t) == Len(s) <= Len(t) /\ \A i \in 1..Len(s) : s[i] = t[i]
InRange(v) == v \in 0..4095
SentSetValue == wire.op = "set_value"

\* C1: when a write fails, unselect and unlock are still called before the
\* error reaches the caller: whenever a caller is outside a call, its lock
\* calls equal its unlock calls, its select calls equal its unselect calls,
\* and it neither holds the bus lock nor has its chip-select asserted.
C1_ReleaseBalanced ==
    \A d \in Drivers :
        pc[d] = "idle" =>
            /\ cnt[d].lock = cnt[d].unlock
            /\ cnt[d].select = cnt[d].unselect
            /\ lockOwner # d
            /\ ~selected[d]

\* C2: every call makes its bus calls in the order lock, select, write,
\* unselect, unlock, each once (a finished call has made all five); a frame
\* is written only while the writer holds the lock and its chip-select is
\* asserted; a chip-select is asserted only while its driver holds the lock;
\* a driver holds the lock at no point outside a call.
C2_ScopedOrder ==
    /\ \A d \in Drivers :
          /\ IsPrefix(log[d], BusOrder)
          /\ (pc[d] = "idle" /\ outcome[d] # "none") => log[d] = BusOrder
          /\ selected[d] => lockOwner = d
          /\ pc[d] = "idle" => lockOwner # d
    /\ wire.drv # NoDriver => (wire.owner = wire.drv /\ wire.drv \in wire.sel)

\* C3: for v in 0..4095, set_value(v, gain=1, buffered=False) writes the frame
\* <<0x10 | 0x20 | ((v>>8)&0x0F), v & 0xFF>>; bit 7 of the high byte is 0;
\* v = 1600 gives <<0x36, 0x40>>.
C3_DefaultFrame ==
    (SentSetValue /\ InRange(wire.args.v) /\ wire.args.gain = 1 /\ ~wire.args.buff) =>
        /\ wire.frame = <<16 + 32 + ((wire.args.v \div 256) % 16), wire.args.v % 256>>
        /\ Bit(wire.frame[1], 7) = 0
        /\ wire.args.v = 1600 => wire.frame = <<54, 64>>

C3_Witness ==
    /\ wire.ok
    /\ SentSetValue
    /\ wire.args = [v |-> 1600, gain |-> 1, buff |-> FALSE]
    /\ wire.frame = <<54, 64>>

\* C4: gain is tested for equality with 2: with gain = 2 the written high
\* byte has GAIN_1 (0x20) clear; with any other gain it has GAIN_1 set and
\* the frame is the one written for gain = 1.
C4_GainIsEqualityWithTwo ==
    SentSetValue =>
        IF wire.args.gain = 2
        THEN /\ Bit(wire.frame[1], 5) = 0
             /\ InRange(wire.args.v) /\ ~wire.args.buff =>
                    wire.frame[1] = 16 + ((wire.args.v \div 256) % 16)
        ELSE /\ Bit(wire.frame[1], 5) = 1
             /\ wire.frame = set_value_cmd(wire.args.v, 1, wire.args.buff)

C4_Witness ==
    /\ wire.ok
    /\ SentSetValue
    /\ wire.args.gain = 3
    /\ wire.args.v = 4095
    /\ Bit(wire.frame[1], 5) = 1

\* C5: the frame written for buffered=True differs from the one for
\* buffered=False (same v and gain) exactly in bit 6 of the high byte, which
\* is set; set_value(4095, gain=2, buffered=True) writes <<0x5F, 0xFF>>.
C5_BufferedSetsOnlyBit6 ==
    SentSetValue =>
        LET unbuf == set_value_cmd(wire.args.v, wire.args.gain, FALSE)
        IN  /\ Bit(unbuf[1], 6) = 0
            /\ wire.frame[2] = unbuf[2]
            /\ wire.frame[1] = unbuf[1] + (IF wire.args.buff THEN 64 ELSE 0)
            /\ wire.args = [v |-> 4095, gain |-> 2, buff |-> TRUE] =>
                    wire.frame = <<95, 255>>

C5_Witness ==
    /\ wire.ok
    /\ SentSetValue
    /\ wire.args = [v |-> 4095, gain |-> 2, buff |-> TRUE]
    /\ wire.frame = <<95, 255>>

\* C6: an out-of-range v is not rejected (a call raises only when its write
\* does): the frame written is the one for v & 0x0FFF, and bits 7..4 of the
\* high byte hold the flags alone.
C6_OutOfRangeMasked ==
    /\ (SentSetValue /\ ~InRange(wire.args.v)) =>
          /\ wire.frame =
                set_value_cmd(BitAnd(wire.args.v, 4095), wire.args.gain, wire.args.buff)
          /\ wire.frame = <<16 + 32 * B2N(wire.args.gain # 2) + 64 * B2N(wire.args.buff)
                               + ((wire.args.v \div 256) % 16),
                            wire.args.v % 256>>
    /\ \A d \in Drivers : outcome[d] = "error" => wres[d] = "fail"

C6_Witness ==
    /\ wire.ok
    /\ SentSetValue
    /\ wire.args = [v |-> 2 * 4096 + 1, gain |-> 2, buff |-> FALSE]
    /\ wire.frame = <<16, 1>>
    /\ outcome[wire.drv] = "ok"

\* C7: shutdown always writes the frame <<0, 0>>, whatever was called before.
C7_ShutdownFrame ==
    /\ wire.op = "shutdown" => wire.frame = <<0, 0>>
    /\ \A d \in Drivers :
          (op[d] = "shutdown" /\ pc[d] \notin {"idle", "enc"}) => cmd[d] = <<0, 0>>

C7_Witness ==
    /\ wire.ok
    /\ wire.op = "shutdown"
    /\ wire.frame = <<0, 0>>
    /\ lastOk[wire.drv] = "set_value"
    /\ devMode[wire.drv] = "Shutdown"

\* C8: a failed write is propagated and never retried or swallowed: a call
\* makes at most one write, a call whose write failed has ended with an
\* error, and a call that returned normally had its write succeed.
C8_WriteErrorPropagates ==
    \A d \in Drivers :
        /\ Cardinality({i \in 1..Len(log[d]) : log[d][i] = "write"}) <= 1
        /\ wres[d] = "fail" => (pc[d] = "idle" /\ outcome[d] = "error")
        /\ outcome[d] = "ok" => wres[d] = "ok"

C8_Witness ==
    \E d \in Drivers :
        /\ wres[d] = "fail"
        /\ outcome[d] = "error"
        /\ calls[d] = 2
        /\ lastOk[d] = "set_value"

\* C9: every frame set_value writes has bit 4 (NOT_SHDN) set; a successful
\* set_value leaves the device Active and a successful shutdown leaves it in
\* Shutdown; between calls the device is Active exactly when the last call
\* that succeeded was set_value.
C9_DeviceMode ==
    /\ SentSetValue => Bit(wire.frame[1], 4) = 1
    /\ \A d \in Drivers :
          /\ (wres[d] = "ok" /\ pc[d] \in {"unselect", "unlock"}) =>
                devMode[d] = (IF op[d] = "set_value" THEN "Active" ELSE "Shutdown")
          /\ pc[d] = "idle" => (devMode[d] = "Active" <=> lastOk[d] = "set_value")

C9_Witness ==
    \E d \in Drivers :
        /\ pc[d] = "unselect"
        /\ op[d] = "set_value"
        /\ wres[d] = "ok"
        /\ lastOk[d] = "shutdown"
        /\ devMode[d] = "Active"

\* C10: with several drivers calling concurrently on one bus, at most one
\* caller is between its lock and its unlock, at most one chip-select is
\* asserted, and a frame is written only while no other driver's chip is
\* selected.
C10_MutualExclusion ==
    /\ Cardinality({d \in Drivers : cnt[d].lock > cnt[d].unlock}) <= 1
    /\ Cardinality({d \in Drivers : selected[d]}) <= 1
    /\ wire.drv # NoDriver => wire.sel \subseteq {wire.drv}

C10_Witness ==
    \E d, e \in Drivers :
        /\ d # e
        /\ pc[d] = "unselect"
        /\ selected[d]
        /\ pc[e] = "lock"
        /\ wire.drv = d
        /\ lastOk[e] # "none"

====
